---- MODULE Spec2Model ----
(***************************************************************************)
(* Model of vuln-cloud-metadata-scanner (src/main.py): the MetadataScanner *)
(* class (scan_endpoint, scan_all_endpoints) and the command line driver   *)
(* main().  Python values are tagged records, a str is a sequence of text  *)
(* fragments, a dict is a sequence of key/value entries in insertion order.*)
(***************************************************************************)
EXTENDS Integers, Sequences, FiniteSets, TLC

VARIABLES pc, args, build, scanner, idx, results, requests, last, stdout, file, exit_code

vars == <<pc, args, build, scanner, idx, results, requests, last, stdout, file, exit_code>>

------------------------------------------------------------------------------
(* Bounds of the model *)

MaxBodyLen == 3
MaxProviders == 2

------------------------------------------------------------------------------
(* Python values *)

PyNone == [t |-> "None"]
PyStr(s) == [t |-> "str", v |-> s]
PyInt(n) == [t |-> "int", v |-> n]
PyList(s) == [t |-> "list", v |-> s]
PyDict(items) == [t |-> "dict", v |-> items]

RECURSIVE Count(_, _)
Count(s, x) ==
  IF s = <<>> THEN 0
  ELSE (IF Head(s) = x THEN 1 ELSE 0) + Count(Tail(s), x)

SeqsUpTo(S, n) == UNION {[1..k -> S] : k \in 0..n}

------------------------------------------------------------------------------
(* The static configuration of the scanner *)

Providers == {"AWS", "Azure", "GCP"}

DefaultUserAgent == "vuln-Cloud-Metadata-Scanner/1.0"

\* self.metadata_endpoints, a dict literal: its keys in insertion order
EndpointOrder == <<"AWS", "Azure", "GCP">>

EndpointUrl(p) ==
  CASE p = "AWS" -> "http://169.254.169.254/latest/meta-data/"
    [] p = "Azure" -> "http://169.254.169.254/metadata/instance?api-version=2020-09-01"
    [] p = "GCP" -> "http://metadata.google.internal/computeMetadata/v1/"

\* MetadataScanner.__init__
NewScanner(timeout, user_agent) ==
  [t |-> "scanner", timeout |-> timeout, user_agent |-> user_agent,
   metadata_endpoints |-> EndpointOrder]

------------------------------------------------------------------------------
(* The HTTP library (requests) as scan_endpoint uses it *)

\* Response bodies are texts over this alphabet, one fragment per character.
Quote == "\""
Chars == {"[", "]", "1", Quote, "x"}
Bodies(n) == SeqsUpTo(Chars, n)

Statuses == {200, 302, 403, 500}
RedirectTarget == "http://attacker.example/"

\* What the network answers to one GET: a response, or a network-level failure.
Replies(n) ==
  {[kind |-> "response", status |-> st, body |-> b,
    location |-> IF st \in 300..399 THEN RedirectTarget ELSE ""] :
       st \in Statuses, b \in Bodies(n)}
  \cup {[kind |-> "timeout"], [kind |-> "connection_error"]}

\* Session defaults that requests merges under the headers= argument.
DefaultRequestHeaders == {<<"User-Agent", "python-requests">>}

HeaderNames(items) == {h[1] : h \in items}

WireHeaders(headers) ==
  IF headers.t = "None" THEN DefaultRequestHeaders
  ELSE {h \in DefaultRequestHeaders : h[1] \notin HeaderNames(headers.v)} \cup headers.v

Request(url, timeout, headers) ==
  [url |-> url, timeout |-> timeout, headers_arg |-> headers,
   headers |-> WireHeaders(headers)]

Ok(v) == [t |-> "ok", v |-> v]
Raise(cls, text) == [t |-> "raise", cls |-> cls, text |-> text]

\* Exception classes and their base classes.  response.json() raises a class
\* that depends on the installed requests: since 2.27 its own JSONDecodeError,
\* a RequestException and a json.JSONDecodeError at once; before, the
\* decoder's own error (json's, or simplejson's when that is installed).
Builds == {"requests>=2.27", "requests<2.27", "requests<2.27,simplejson"}

JsonErrorClass(b) ==
  CASE b = "requests>=2.27" -> "requests.JSONDecodeError"
    [] b = "requests<2.27" -> "json.JSONDecodeError"
    [] b = "requests<2.27,simplejson" -> "simplejson.JSONDecodeError"

Bases(cls) ==
  CASE cls = "HTTPError" -> {"HTTPError", "RequestException", "Exception"}
    [] cls = "Timeout" -> {"Timeout", "RequestException", "Exception"}
    [] cls = "ConnectionError" -> {"ConnectionError", "RequestException", "Exception"}
    [] cls = "requests.JSONDecodeError" ->
         {"requests.JSONDecodeError", "RequestException", "json.JSONDecodeError",
          "ValueError", "Exception"}
    [] cls = "json.JSONDecodeError" -> {"json.JSONDecodeError", "ValueError", "Exception"}
    [] cls = "simplejson.JSONDecodeError" ->
         {"simplejson.JSONDecodeError", "ValueError", "Exception"}
    [] cls = "KeyError" -> {"KeyError", "Exception"}

\* requests.get(url, timeout=, headers=, allow_redirects=): the requests put on
\* the wire and what the call gives back.  A redirect is followed only when
\* allow_redirects is set; the target then answers in place of the endpoint.
HttpGet(url, timeout, headers, allow_redirects, reply) ==
  LET first == Request(url, timeout, headers)
      follow == /\ allow_redirects
                /\ reply.kind = "response"
                /\ reply.status \in 300..399
  IN  [sent |-> IF follow THEN <<first, Request(reply.location, timeout, headers)>>
                ELSE <<first>>,
       out |-> CASE reply.kind = "timeout" ->
                      Raise("Timeout", <<"Read timed out. (read timeout=", ToString(timeout), ")">>)
                 [] reply.kind = "connection_error" ->
                      Raise("ConnectionError", <<"Max retries exceeded with url: ", url>>)
                 [] OTHER ->
                      Ok(IF follow THEN [reply EXCEPT !.status = 200, !.location = ""]
                         ELSE reply)]

\* response.raise_for_status()
RaiseForStatus(url, response) ==
  IF response.status \in 400..499
    THEN Raise("HTTPError", <<ToString(response.status), " Client Error for url: ", url>>)
  ELSE IF response.status \in 500..599
    THEN Raise("HTTPError", <<ToString(response.status), " Server Error for url: ", url>>)
  ELSE Ok(response)

\* json.loads on the grammar  value ::= 1+ | "..." | [] | [value]
AllOnes(s) == \A i \in 1..Len(s) : s[i] = "1"

RECURSIVE OnesValue(_)
OnesValue(s) == IF s = <<>> THEN 0 ELSE 10 * OnesValue(SubSeq(s, 1, Len(s) - 1)) + 1

RECURSIVE JsonLoads(_)
JsonLoads(s) ==
  IF s = <<>> THEN Raise("JSONDecodeError", <<"Expecting value">>)
  ELSE IF AllOnes(s) THEN Ok(PyInt(OnesValue(s)))
  ELSE IF /\ Len(s) >= 2 /\ s[1] = Quote /\ s[Len(s)] = Quote
          /\ \A i \in 2..(Len(s) - 1) : s[i] # Quote
    THEN Ok(PyStr(SubSeq(s, 2, Len(s) - 1)))
  ELSE IF Len(s) >= 2 /\ s[1] = "[" /\ s[Len(s)] = "]"
    THEN IF Len(s) = 2 THEN Ok(PyList(<<>>))
         ELSE LET inner == JsonLoads(SubSeq(s, 2, Len(s) - 1))
              IN  IF inner.t = "ok" THEN Ok(PyList(<<inner.v>>)) ELSE inner
  ELSE Raise("JSONDecodeError", <<"Expecting value">>)

\* response.json(): the decoded body, or the build's decode error
ResponseJson(response, b) ==
  LET r == JsonLoads(response.body)
  IN  IF r.t = "ok" THEN r ELSE Raise(JsonErrorClass(b), r.text)

\* response.text
ResponseText(response) == PyStr(response.body)

------------------------------------------------------------------------------
(* MetadataScanner.scan_endpoint *)

\* Variant: the provider's header is added to explicit headers too
ProviderHeaders_always(cloud_provider, headers) ==
  LET own == IF cloud_provider = "GCP" THEN {<<"Metadata-Flavor", "Google">>}
             ELSE IF cloud_provider = "Azure" THEN {<<"Metadata", "true">>}
             ELSE {}
  IN  IF headers.t = "None"
        THEN (IF own = {} THEN headers ELSE PyDict(own))
      ELSE PyDict({h \in headers.v : h[1] \notin HeaderNames(own)} \cup own)

\* The headers= argument of the GET: the provider's header when none is given
ProviderHeaders(cloud_provider, headers) ==
  IF cloud_provider = "GCP"
    THEN (IF headers.t = "None" THEN PyDict({<<"Metadata-Flavor", "Google">>}) ELSE headers)
  ELSE IF cloud_provider = "Azure"
    THEN (IF headers.t = "None" THEN PyDict({<<"Metadata", "true">>}) ELSE headers)
  ELSE headers

\* Variant: redirects are followed
AllowRedirects_follow == TRUE

\* allow_redirects=False in the GET
AllowRedirects == FALSE

\* Variant: the text for every provider
Metadata_text(cloud_provider, response, b) == Ok(ResponseText(response))

\* The metadata the probe returns: the decoded JSON for Azure, the text otherwise
Metadata(cloud_provider, response, b) ==
  IF cloud_provider = "Azure" THEN ResponseJson(response, b)
  ELSE Ok(ResponseText(response))

\* Variant: only the first except clause
Handlers_requestOnly == <<"RequestException">>

\* The except clauses, in the order they are tried
Handlers == <<"RequestException", "json.JSONDecodeError", "Exception">>

RECURSIVE FirstHandler(_, _)
FirstHandler(hs, cls) ==
  IF hs = <<>> THEN "uncaught"
  ELSE IF Head(hs) \in Bases(cls) THEN Head(hs)
  ELSE FirstHandler(Tail(hs), cls)

ErrorMessage(handler, cloud_provider, text) ==
  CASE handler = "RequestException" ->
         PyStr(<<"Error accessing ", cloud_provider, " metadata: ">> \o text)
    [] handler = "json.JSONDecodeError" ->
         PyStr(<<"Error decoding JSON response from ", cloud_provider, ": ">> \o text)
    [] handler = "Exception" ->
         PyStr(<<"An unexpected error occurred: ">> \o text)

\* The try block: the requests it sends, the lines it logs, its value or exception
TryBlock(self, cloud_provider, headers, reply, b) ==
  IF cloud_provider \notin Providers
    THEN [sent |-> <<>>, log |-> <<>>, out |-> Raise("KeyError", <<cloud_provider>>)]
  ELSE
    LET url == EndpointUrl(cloud_provider)
        attempt == <<"INFO", <<"Attempting to access ", cloud_provider,
                               " metadata endpoint: ", url>>>>
        got == HttpGet(url, self.timeout, ProviderHeaders(cloud_provider, headers),
                       AllowRedirects, reply)
        checked == IF got.out.t = "ok" THEN RaiseForStatus(url, got.out.v) ELSE got.out
        metadata == IF checked.t = "ok" THEN Metadata(cloud_provider, checked.v, b)
                    ELSE checked
    IN  [sent |-> got.sent,
         log |-> IF metadata.t = "ok"
                   THEN <<attempt, <<"INFO", <<"Successfully accessed ", cloud_provider,
                                               " metadata.">>>>>>
                 ELSE <<attempt>>,
         out |-> metadata]

\* scan_endpoint(cloud_provider, headers): the record of one call.  ret is the
\* returned (success, data) pair; raised tells an exception left the function.
ScanEndpoint(self, cloud_provider, headers, reply, b) ==
  LET try == TryBlock(self, cloud_provider, headers, reply, b)
      handler == IF try.out.t = "ok" THEN "none" ELSE FirstHandler(Handlers, try.out.cls)
      message == IF handler \in {"none", "uncaught"} THEN PyNone
                 ELSE ErrorMessage(handler, cloud_provider, try.out.text)
  IN  [t |-> "call",
       provider |-> cloud_provider,
       headers |-> headers,
       reply |-> reply,
       sent |-> try.sent,
       handler |-> handler,
       raised |-> handler = "uncaught",
       log |-> IF message.t = "str" THEN Append(try.log, <<"ERROR", message.v>>)
               ELSE try.log,
       ret |-> IF handler = "none" THEN <<TRUE, try.out.v>>
               ELSE IF handler = "uncaught" THEN <<FALSE, PyNone>>
               ELSE <<FALSE, message>>]

------------------------------------------------------------------------------
(* The command line and main() *)

Timeouts == {-1, 0, 5}
UserAgents == {DefaultUserAgent, "MyCustomScanner/1.0"}
Outputs == {PyNone, PyStr(<<>>), PyStr(<<"results.json">>)}

\* --providers: nargs="+" with choices, so a non-empty list that may repeat a name
ProviderLists == {PyList(l) : l \in SeqsUpTo(Providers, MaxProviders) \ {<<>>}}

ArgsSet ==
  [timeout : Timeouts, user_agent : UserAgents, output : Outputs,
   providers : {PyNone} \cup ProviderLists]

\* Python truth of an optional str or list
Truthy(x) == x.t # "None" /\ x.v # <<>>

\* The bodies the endpoints answer with during a run: empty, JSON, not JSON
RunBodies == {<<>>, <<"1">>, <<"x">>}
RunReplies == {r \in Replies(1) : r.kind = "response" => r.body \in RunBodies}

\* Variant: zero is accepted
InvalidTimeout_negative(timeout) == timeout < 0

\* if args.timeout <= 0
InvalidTimeout(timeout) == timeout <= 0

\* Variant: --providers is ignored
ProvidersToScan_all(a, self) == self.metadata_endpoints

\* The providers the run iterates over: the given list, or scan_all_endpoints
ProvidersToScan(a, self) ==
  IF Truthy(a.providers) THEN a.providers.v ELSE self.metadata_endpoints

\* results[provider] = value on a dict: a known key keeps its place
RECURSIVE DictSet(_, _, _)
DictSet(d, k, v) ==
  IF d = <<>> THEN <<[key |-> k, value |-> v]>>
  ELSE IF Head(d).key = k THEN <<[key |-> k, value |-> v]>> \o Tail(d)
  ELSE <<Head(d)>> \o DictSet(Tail(d), k, v)

Keys(d) == [i \in 1..Len(d) |-> d[i].key]

\* json.dump / json.dumps with indent=4: the JSON document of the report
RECURSIVE JsonEncode(_)
JsonEncode(x) ==
  CASE x.t = "str" -> [j |-> "string", v |-> x.v]
    [] x.t = "int" -> [j |-> "number", v |-> x.v]
    [] x.t = "list" -> [j |-> "array", v |-> [i \in 1..Len(x.v) |-> JsonEncode(x.v[i])]]
    [] x.t = "None" -> [j |-> "null"]

JsonDump(d, indent) ==
  [t |-> "json", indent |-> indent,
   members |-> [i \in 1..Len(d) |->
                  [name |-> d[i].key,
                   value |-> [success |-> IF d[i].value.success THEN "true" ELSE "false",
                              data |-> JsonEncode(d[i].value.data)]]]]

\* Variant: a failed write exits with 0
ExitAfterOutput_zero(written) == 0

\* sys.exit status after the output step
ExitAfterOutput(written) == IF written THEN 0 ELSE 1

NoFile == [t |-> "absent"]
TruncatedFile == [t |-> "truncated"]

Init ==
  /\ pc = "main"
  /\ args \in ArgsSet
  /\ build \in Builds
  /\ scanner = PyNone
  /\ idx = 0
  /\ results = <<>>
  /\ requests = <<>>
  /\ last = PyNone
  /\ stdout = <<>>
  /\ file = NoFile
  /\ exit_code = -1

\* main, lines 141-149: the timeout check, then the scanner is built
Validate ==
  /\ pc = "main"
  /\ IF InvalidTimeout(args.timeout)
       THEN /\ stdout' = Append(stdout, PyStr(<<"Error: Timeout value must be greater than 0.">>))
            /\ exit_code' = 1
            /\ pc' = "exited"
            /\ UNCHANGED <<scanner, idx>>
       ELSE /\ scanner' = NewScanner(args.timeout, args.user_agent)
            /\ idx' = 1
            /\ pc' = "scan"
            /\ UNCHANGED <<stdout, exit_code>>
  /\ UNCHANGED <<args, build, results, requests, last, file>>

\* One iteration of the loop of main (lines 153-155) or of scan_all_endpoints
\* (lines 85-87): a probe, and its entry in the report
ScanStep ==
  /\ pc = "scan"
  /\ idx <= Len(ProvidersToScan(args, scanner))
  /\ \E reply \in RunReplies :
       LET provider == ProvidersToScan(args, scanner)[idx]
           call == ScanEndpoint(scanner, provider, PyNone, reply, build)
       IN  /\ last' = call
           /\ requests' = requests \o call.sent
           /\ IF call.raised
                THEN /\ pc' = "crashed"
                     /\ exit_code' = 1
                     /\ UNCHANGED <<results, idx>>
                ELSE /\ results' = DictSet(results, provider,
                                           [success |-> call.ret[1], data |-> call.ret[2]])
                     /\ idx' = idx + 1
                     /\ pc' = IF idx = Len(ProvidersToScan(args, scanner))
                                THEN "output" ELSE "scan"
                     /\ UNCHANGED exit_code
  /\ UNCHANGED <<args, build, scanner, stdout, file>>

\* main, lines 160-169: the report goes to the file or to standard output
Output ==
  /\ pc = "output"
  /\ IF Truthy(args.output)
       THEN \E written \in BOOLEAN :
              /\ IF written
                   THEN /\ file' = JsonDump(results, 4)
                        /\ stdout' = Append(stdout,
                                       PyStr(<<"Scan results saved to ">> \o args.output.v))
                   ELSE /\ file' \in {file, TruncatedFile}
                        /\ stdout' = Append(stdout,
                                       PyStr(<<"Error writing to output file: ", "OSError">>))
              /\ exit_code' = ExitAfterOutput(written)
              /\ pc' = IF written THEN "done" ELSE "exited"
       ELSE /\ stdout' = Append(stdout, JsonDump(results, 4))
            /\ exit_code' = 0
            /\ pc' = "done"
            /\ UNCHANGED file
  /\ UNCHANGED <<args, build, scanner, idx, results, requests, last>>

Next == Validate \/ ScanStep \/ Output

Spec == Init /\ [][Next]_vars

------------------------------------------------------------------------------
(* scan_endpoint on its own: every provider name, headers argument and reply *)

ProviderArgs == Providers \cup {"Oracle"}

HeaderArgs ==
  {PyNone, PyDict({}), PyDict({<<"X-Probe", "1">>}), PyDict({<<"Metadata", "false">>}),
   PyDict({<<"User-Agent", "curl">>})}

ProbeInit ==
  /\ pc = "call"
  /\ \E ua \in UserAgents :
       /\ args = [timeout |-> 5, user_agent |-> ua, output |-> PyNone, providers |-> PyNone]
       /\ scanner = NewScanner(5, ua)
  /\ build \in Builds
  /\ idx = 0
  /\ results = <<>>
  /\ requests = <<>>
  /\ last = PyNone
  /\ stdout = <<>>
  /\ file = NoFile
  /\ exit_code = -1

CallScanEndpoint ==
  /\ pc = "call"
  /\ \E provider \in ProviderArgs, headers \in HeaderArgs, reply \in Replies(MaxBodyLen) :
       LET call == ScanEndpoint(scanner, provider, headers, reply, build)
       IN  /\ last' = call
           /\ requests' = requests \o call.sent
  /\ pc' = "returned"
  /\ UNCHANGED <<args, build, scanner, idx, results, stdout, file, exit_code>>

ProbeNext == CallScanEndpoint

ProbeSpec == ProbeInit /\ [][ProbeNext]_vars

------------------------------------------------------------------------------
(* Vocabulary of the properties *)

\* The providers the command line asks for, in order
Configured ==
  IF args.providers.t = "list" THEN args.providers.v ELSE <<"AWS", "Azure", "GCP">>

\* The number of probes made so far in the run
Probed == IF idx = 0 THEN 0 ELSE idx - 1

ScanCompleted == pc \in {"output", "done"} \/ (pc = "exited" /\ args.timeout > 0)

RequestsTo(url) == Cardinality({i \in 1..Len(requests) : requests[i].url = url})

\* s without its repeated elements, each kept at its first place
RECURSIVE Dedup(_)
Dedup(s) ==
  IF s = <<>> THEN <<>>
  ELSE LET front == Dedup(SubSeq(s, 1, Len(s) - 1))
           x == s[Len(s)]
       IN  IF \E i \in 1..Len(front) : front[i] = x THEN front ELSE Append(front, x)

Entry(p) == (CHOOSE i \in 1..Len(results) : results[i].key = p)

HasEntry(p) == \E i \in 1..Len(results) : results[i].key = p

\* The call that last returned probed a known provider
Probe == last.t = "call" /\ last.provider \in Providers

Answered == Probe /\ last.reply.kind = "response"

\* The outcomes that make a probe fail: a network failure, a 4xx or 5xx status,
\* an Azure body that is no JSON
FailedOutcome ==
  /\ Probe
  /\ \/ last.reply.kind \in {"timeout", "connection_error"}
     \/ last.reply.status >= 400
     \/ last.provider = "Azure" /\ JsonLoads(last.reply.body).t = "raise"

------------------------------------------------------------------------------
(* C1: for every provider, an answer with a status outside 2xx (a 3xx         *)
(* redirect in particular) is not followed by a second request and makes the  *)
(* probe fail (success = false).                                              *)
C1_NonSuccessStatusFails ==
  (Answered /\ last.reply.status \notin 200..299)
    => Len(last.sent) = 1 /\ last.ret[1] = FALSE

------------------------------------------------------------------------------
(* C3: with a timeout <= 0 on the command line main ends with exit code 1     *)
(* before any HTTP request: no probe is started, no request is sent, and no   *)
(* report reaches standard output or the output file.                         *)
C3_InvalidTimeoutExitsEarly ==
  args.timeout <= 0 =>
    /\ pc \in {"main", "exited"}
    /\ pc = "exited" => exit_code = 1
    /\ requests = <<>>
    /\ last.t = "None"
    /\ results = <<>>
    /\ file = NoFile
    /\ \A i \in 1..Len(stdout) : stdout[i].t # "json"

C3_Witness ==
  /\ args.timeout = 0
  /\ pc = "exited"
  /\ exit_code = 1
  /\ Len(stdout) = 1

------------------------------------------------------------------------------
------------------------------------------------------------------------------
(* C5: an Azure probe answered with a 2xx status and a body that is no valid  *)
(* JSON fails with the decoding message ("Error decoding JSON response from   *)
(* Azure: ..."), produced by the JSON-decode handler and by no other one.     *)
C5_DecodeErrorIsDistinct ==
  (/\ Answered
   /\ last.provider = "Azure"
   /\ last.reply.status \in 200..299
   /\ JsonLoads(last.reply.body).t = "raise")
    => /\ last.ret[1] = FALSE
       /\ last.handler = "json.JSONDecodeError"
       /\ last.ret[2].t = "str"
       /\ SubSeq(last.ret[2].v, 1, 3) = <<"Error decoding JSON response from ", "Azure", ": ">>

------------------------------------------------------------------------------
(* C9: every HTTP request of a probe carries the configured user agent (the   *)
(* --user-agent value) as its User-Agent header, for every provider, with or  *)
(* without injected provider headers.                                         *)
C9_UserAgentSent ==
  Probe =>
    \A i \in 1..Len(last.sent) : <<"User-Agent", scanner.user_agent>> \in last.sent[i].headers

------------------------------------------------------------------------------
(* C10: called without headers, scan_endpoint sends GCP exactly               *)
(* Metadata-Flavor: Google, Azure exactly Metadata: true, and AWS no provider *)
(* header; called with headers, it sends them unchanged and adds no provider  *)
(* header.                                                                    *)
C10_ProviderHeaders ==
  Probe =>
    /\ Len(last.sent) = 1
    /\ last.headers.t # "None" => last.sent[1].headers_arg = last.headers
    /\ (last.headers.t = "None" /\ last.provider = "GCP")
         => /\ last.sent[1].headers_arg.t = "dict"
            /\ last.sent[1].headers_arg.v = {<<"Metadata-Flavor", "Google">>}
    /\ (last.headers.t = "None" /\ last.provider = "Azure")
         => /\ last.sent[1].headers_arg.t = "dict"
            /\ last.sent[1].headers_arg.v = {<<"Metadata", "true">>}
    /\ (last.headers.t = "None" /\ last.provider = "AWS")
         => /\ last.sent[1].headers_arg.t = "None"
            /\ HeaderNames(last.sent[1].headers) \cap {"Metadata", "Metadata-Flavor"} = {}

C10_Witness ==
  /\ Probe
  /\ last.provider = "GCP"
  /\ last.headers = PyDict({<<"X-Probe", "1">>})
  /\ Len(last.sent) = 1
  /\ "Metadata-Flavor" \notin HeaderNames(last.sent[1].headers)

------------------------------------------------------------------------------
(* C2 *)

\* A failed probe leaves its provider an entry with success = false and a message
C2_FailureRecorded ==
  FailedOutcome =>
    /\ HasEntry(last.provider)
    /\ results[Entry(last.provider)].value.success = FALSE
    /\ results[Entry(last.provider)].value.data.t = "str"
    /\ results[Entry(last.provider)].value.data.v # <<>>

\* After the scan every configured provider was requested and has its entry
C2_AllProbed ==
  ScanCompleted =>
    /\ Probed = Len(Configured)
    /\ \A i \in 1..Len(Configured) :
         /\ HasEntry(Configured[i])
         /\ RequestsTo(EndpointUrl(Configured[i])) >= 1

\* The loop is left only with the whole list probed
C2_LoopState ==
  (args.timeout > 0 /\ pc # "main") =>
    /\ pc \in {"scan", "output", "done", "exited"}
    /\ pc = "scan" => Probed < Len(Configured)

\* Every step of the loop, whatever its outcome, records its provider and moves
\* to the next one
C2_LoopStep ==
  pc = "scan" =>
    /\ pc' \in {"scan", "output"}
    /\ Probed' = Probed + 1
    /\ last'.t = "call"
    /\ last'.provider = Configured[Probed + 1]
    /\ \E i \in 1..Len(results') : results'[i].key = Configured[Probed + 1]

(* C2: in a run with a valid timeout every provider of the configured set is  *)
(* probed and gets an entry in the report whatever the earlier outcomes: a    *)
(* failed probe (HTTP 403/500, timeout, connection error, decode error) gives *)
(* the entry success = false with a non-empty message, and the run goes on to *)
(* the end of the list.                                                       *)
C2_FailureNeverStopsScan ==
  /\ [](C2_FailureRecorded /\ C2_AllProbed /\ C2_LoopState)
  /\ [][C2_LoopStep]_vars

C2_Witness ==
  /\ pc = "done"
  /\ Len(results) = 3
  /\ \A i \in 1..3 : results[i].value.success = FALSE
  /\ results[2].value.data.v[1] \in {"Error accessing ", "Error decoding JSON response from ",
                                     "An unexpected error occurred: "}

------------------------------------------------------------------------------
(* C6: the exit code is 0 on every run that completes the scan and emits the  *)
(* report, however many probes failed; it is 1 exactly when the timeout is    *)
(* invalid or the output file cannot be written; a failed write is reported,  *)
(* a successful one is confirmed by a message naming the output path.         *)
C6_ExitCodes ==
  /\ exit_code \in {-1, 0, 1}
  /\ exit_code = -1 <=> pc \in {"main", "scan", "output"}
  /\ exit_code = 0 =>
       /\ pc = "done"
       /\ args.timeout > 0
       /\ Probed = Len(Configured)
       /\ IF args.output.t = "str" /\ args.output.v # <<>>
            THEN /\ file = JsonDump(results, 4)
                 /\ stdout = <<PyStr(<<"Scan results saved to ">> \o args.output.v)>>
            ELSE /\ stdout = <<JsonDump(results, 4)>>
                 /\ file = NoFile
  /\ exit_code = 1 =>
       /\ pc = "exited"
       /\ \/ args.timeout <= 0 /\ requests = <<>>
          \/ /\ args.timeout > 0
             /\ args.output.t = "str" /\ args.output.v # <<>>
             /\ file \in {NoFile, TruncatedFile}
             /\ Len(stdout) = 1
             /\ stdout[1].t = "str"
             /\ stdout[1].v[1] = "Error writing to output file: "

C6_Witness ==
  /\ pc = "done"
  /\ exit_code = 0
  /\ Len(results) = 3
  /\ \A i \in 1..3 : results[i].value.success = FALSE
  /\ file # NoFile

------------------------------------------------------------------------------
(* C7 as stated: no provider is sent more than one HTTP request in a run,     *)
(* whatever the command line, a --providers list that repeats a name          *)
(* included.                                                                  *)
C7_AtMostOneRequestPerProvider ==
  \A p \in Providers : RequestsTo(EndpointUrl(p)) <= 1

(* C7 as amended: no retries: every probe of the run (one per element of the  *)
(* --providers list, one per provider when the option is absent) sends        *)
(* exactly one HTTP request, to its provider's endpoint, whether it fails or  *)
(* not; a provider gets as many requests as the list names it, so at most one *)
(* unless the list repeats it.                                                *)
C7_OneRequestPerProbe ==
  /\ Len(requests) = Probed
  /\ \A i \in 1..Len(requests) : requests[i].url = EndpointUrl(Configured[i])
  /\ \A p \in Providers :
       RequestsTo(EndpointUrl(p)) = Count(SubSeq(Configured, 1, Probed), p)
  /\ last.t = "call" => Len(last.sent) = 1

C7_Witness ==
  /\ pc = "done"
  /\ args.providers.t = "list"
  /\ args.providers.v = <<"AWS", "AWS">>
  /\ last.ret[1] = FALSE
  /\ RequestsTo(EndpointUrl("AWS")) = 2

------------------------------------------------------------------------------
(* C8: with --providers only the listed providers are probed and the keys of  *)
(* the report are the listed providers in the order given (a repeated name    *)
(* keeps its first place); without it the three providers are probed and      *)
(* reported in the order AWS, Azure, GCP.                                     *)
C8_ReportKeys ==
  /\ Keys(results) = Dedup(SubSeq(Configured, 1, Probed))
  /\ \A i \in 1..Len(requests) :
       \E j \in 1..Len(Configured) : requests[i].url = EndpointUrl(Configured[j])
  /\ ScanCompleted =>
       /\ Keys(results) = Dedup(Configured)
       /\ args.providers.t = "None" => Keys(results) = <<"AWS", "Azure", "GCP">>
       /\ (args.providers.t = "list" /\ Dedup(args.providers.v) = args.providers.v)
            => Keys(results) = args.providers.v

C8_Witness ==
  /\ pc = "done"
  /\ args.providers.t = "list"
  /\ args.providers.v = <<"GCP", "AWS">>
  /\ Keys(results) = <<"GCP", "AWS">>
  /\ RequestsTo(EndpointUrl("Azure")) = 0

====
